---- MODULE Spec2Model ----
(***************************************************************************)
(* Model of the O-RAN / eCPRI capture-file generators                      *)
(*   src/create_sample_pcap.py, src/create_test_samples.py,                *)
(*   src/create_large_pcap.py.                                             *)
(*                                                                         *)
(* Byte strings are sequences of integers 0..255.  A raised exception is a *)
(* distinguished one-element sequence (StructError, ValueError) that       *)
(* propagates through every concatenation, as the exception propagates     *)
(* through the Python expression.                                          *)
(***************************************************************************)
EXTENDS Integers, Sequences, FiniteSets, TLC

VARIABLES
    rng,            \* the random module's hidden generator: [key, ctr]
    call,           \* a function call under examination: [fn, ...arguments]
    returned,       \* whether that call has returned (or raised)
    ret,            \* what it returned
    writer,         \* the writer function that is running
    pc,             \* where that writer is
    f,              \* the output file: the f.write calls made on it, in order
    fed,            \* what create_packet_header was fed so far: [timestamp, length, head, tail]
    base_time,      \* base_time = time.time()
    num_packets,    \* the number of packets the writer is to emit
    loop_i,         \* the packet loop's index i (packet_count in the frame sequence)
    batch_start,    \* create_large_pcap's outer loop index
    batch_end,
    packet_data,    \* the packet built in this iteration
    packet_header,  \* its record header
    outputs,        \* invocations of the seeded generator: [prior, out], the first and the latest
    threads,        \* the threads running the seeded generator, each with its locals
    draws           \* the values the random module returned to the generator call under examination

----------------------------------------------------------------------------
(* Exceptions and byte-string helpers                                      *)

StructError == <<-1>>

ValueError == <<-2>>

IsErr(b) == b = StructError \/ b = ValueError

\* a + b on bytes objects; the first exception raised wins
Cat(a, b) == IF IsErr(a) THEN a ELSE IF IsErr(b) THEN b ELSE a \o b

Pow2(n) == 2 ^ n

\* Python's a << n on unbounded non-negative integers
Shl(a, n) == a * Pow2(n)

RECURSIVE BitOr(_, _)
\* Python's a | b on non-negative integers
BitOr(a, b) ==
    IF a = 0 THEN b
    ELSE IF b = 0 THEN a
    ELSE (IF a % 2 = 1 \/ b % 2 = 1 THEN 1 ELSE 0) + 2 * BitOr(a \div 2, b \div 2)

RECURSIVE BitAnd(_, _)
\* Python's a & b on non-negative integers
BitAnd(a, b) ==
    IF a = 0 \/ b = 0 THEN 0
    ELSE (IF a % 2 = 1 /\ b % 2 = 1 THEN 1 ELSE 0) + 2 * BitAnd(a \div 2, b \div 2)

\* struct.pack('B', v): one unsigned byte, struct.error when out of range
Pack_B(v) == IF v \in 0..255 THEN <<v>> ELSE StructError

\* struct.pack('>H', v): big-endian unsigned 16 bit
Pack_H_be(v) == IF v \in 0..65535 THEN <<v \div 256, v % 256>> ELSE StructError

\* struct.pack('<H', v): little-endian unsigned 16 bit
Pack_H_le(v) == IF v \in 0..65535 THEN <<v % 256, v \div 256>> ELSE StructError

\* A non-negative Python integer that may exceed the checker's integer range
\* (a shifted 32-bit word, the magic number) is a sequence of bits, least
\* significant first.
Bits(n) == [i \in 1..31 |-> (n \div Pow2(i - 1)) % 2]

\* hi * 65536 + lo for two 16-bit halves, as bits
Bits32(hi, lo) == [i \in 1..32 |->
    IF i <= 16 THEN (lo \div Pow2(i - 1)) % 2 ELSE (hi \div Pow2(i - 17)) % 2]

BitAt(bs, i) == IF i \in 1..Len(bs) THEN bs[i] ELSE 0

\* a << k on bits
ShlBits(bs, k) == [i \in 1..(Len(bs) + k) |-> IF i <= k THEN 0 ELSE bs[i - k]]

\* a | b on bits
OrBits(a, b) ==
    [i \in 1..(IF Len(a) >= Len(b) THEN Len(a) ELSE Len(b)) |->
        IF BitAt(a, i) = 1 \/ BitAt(b, i) = 1 THEN 1 ELSE 0]

RECURSIVE BitsVal(_, _, _)
\* the integer held in bits lo+1 .. lo+width (bit 1 is the least significant)
BitsVal(bs, lo, width) ==
    IF width = 0 THEN 0
    ELSE BitAt(bs, lo + 1) + 2 * BitsVal(bs, lo + 1, width - 1)

FitsBits(bs, w) == \A i \in 1..Len(bs) : i > w => bs[i] = 0

\* struct.pack('>L', v) / struct.pack('<L', v): unsigned 32 bit
Pack_L_be(bs) ==
    IF FitsBits(bs, 32)
    THEN <<BitsVal(bs, 24, 8), BitsVal(bs, 16, 8), BitsVal(bs, 8, 8), BitsVal(bs, 0, 8)>>
    ELSE StructError

Pack_L_le(bs) ==
    IF FitsBits(bs, 32)
    THEN <<BitsVal(bs, 0, 8), BitsVal(bs, 8, 8), BitsVal(bs, 16, 8), BitsVal(bs, 24, 8)>>
    ELSE StructError

\* the same for an integer argument; a negative one raises struct.error
PackInt_L_le(v) == IF v < 0 THEN StructError ELSE Pack_L_le(Bits(v))

\* struct.pack('>h', v): big-endian signed 16 bit, two's complement
Pack_h_be(v) ==
    IF v \in (-32768)..32767
    THEN LET u == IF v < 0 THEN v + 65536 ELSE v IN <<u \div 256, u % 256>>
    ELSE StructError

\* decoders used by the properties (struct.unpack of the same formats)
Unpack_H_be(b, at) == b[at] * 256 + b[at + 1]

\* '<L' fields of the record header; every value the writers store is below 2^31
Unpack_L_le(b, at) == b[at] + 256 * b[at + 1] + 65536 * b[at + 2] + 16777216 * b[at + 3]

----------------------------------------------------------------------------
(* Capture container: create_pcap_global_header, create_packet_header       *)
(* (the three files define them identically)                               *)

\* the global header declaring a snapshot length of 8192
CreatePcapGlobalHeaderSnap8192 ==
    Cat(Pack_L_le(Bits32(41394, 50132)),
    Cat(Pack_H_le(2),
    Cat(Pack_H_le(4),
    Cat(PackInt_L_le(0),
    Cat(PackInt_L_le(0),
    Cat(PackInt_L_le(8192), PackInt_L_le(1)))))))

\* struct.pack('<LHHLLLL', 0xa1b2c3d4, 2, 4, 0, 0, 65535, 1)
CreatePcapGlobalHeader ==
    Cat(Pack_L_le(Bits32(41394, 50132)),
    Cat(Pack_H_le(2),
    Cat(Pack_H_le(4),
    Cat(PackInt_L_le(0),
    Cat(PackInt_L_le(0),
    Cat(PackInt_L_le(65535), PackInt_L_le(1)))))))

\* A float epoch timestamp is a fixed-point number: whole seconds s and a
\* fraction of t ticks of 100 ns, 0 <= t < TicksPerSecond.
TicksPerSecond == 10 * 1000000

Timestamp(s, t) == [s |-> s, t |-> t]

\* timestamp + offset, the offset given in ticks
TsAdd(ts, ticks) ==
    LET total == ts.t + ticks
    IN  [s |-> ts.s + (total \div TicksPerSecond), t |-> total % TicksPerSecond]

TsLeq(a, b) == a.s < b.s \/ (a.s = b.s /\ a.t <= b.t)

\* ts_sec = int(timestamp)
TsSec(ts) == ts.s

\* the fraction rounded to the nearest microsecond instead of truncated
TsUsecRounded(ts) == (ts.t + ((TicksPerSecond \div 1000000) \div 2)) \div (TicksPerSecond \div 1000000)

\* ts_usec = int((timestamp - ts_sec) * 1000000): the fraction scaled to
\* microseconds, anything below a microsecond truncated
TsUsec(ts) == ts.t \div (TicksPerSecond \div 1000000)

\* struct.pack('<LLLL', ts_sec, ts_usec, caplen, origlen)
CreatePacketHeader(data, timestamp) ==
    LET ts_sec == TsSec(timestamp)
        ts_usec == TsUsec(timestamp)
        caplen == Len(data)
        origlen == caplen
    IN  Cat(PackInt_L_le(ts_sec),
        Cat(PackInt_L_le(ts_usec),
        Cat(PackInt_L_le(caplen), PackInt_L_le(origlen))))

----------------------------------------------------------------------------
(* Link layer: create_ethernet_header.  A str is a sequence of characters. *)

HexDigits == <<"0", "1", "2", "3", "4", "5", "6", "7", "8", "9",
               "a", "b", "c", "d", "e", "f">>

IsHex(c) == \E k \in 1..16 : HexDigits[k] = c

HexVal(c) == (CHOOSE k \in 1..16 : HexDigits[k] = c) - 1

\* bytes.fromhex(s): two hex digits per byte, ValueError otherwise
FromHex(s) ==
    IF Len(s) % 2 = 1 \/ (\E i \in 1..Len(s) : ~IsHex(s[i]))
    THEN ValueError
    ELSE [i \in 1..(Len(s) \div 2) |-> 16 * HexVal(s[2 * i - 1]) + HexVal(s[2 * i])]

NotColon(c) == c # ":"

\* mac_to_bytes: bytes.fromhex(mac_str.replace(':', ''))
MacToBytes(mac_str) == FromHex(SelectSeq(mac_str, NotColon))

DefaultSrcMac == <<"0", "0", ":", "1", "1", ":", "2", "2", ":",
                   "3", "3", ":", "4", "4", ":", "5", "5">>

DefaultDstMac == <<"a", "a", ":", "b", "b", ":", "c", "c", ":",
                   "d", "d", ":", "e", "e", ":", "f", "f">>

\* dst + src + struct.pack('>H', 0xaefe)
CreateEthernetHeader(src_mac, dst_mac) ==
    LET dst == MacToBytes(dst_mac)
        src == MacToBytes(src_mac)
        ethertype == 44798
    IN  Cat(dst, Cat(src, Pack_H_be(ethertype)))

----------------------------------------------------------------------------
(* Transport header: create_ecpri_header                                   *)

\* byte0 = (1 << 4) | (0 << 3) | (0 << 2) | (message_type & 0x03)
EcpriByte0(message_type) ==
    BitOr(BitOr(BitOr(Shl(1, 4), Shl(0, 3)), Shl(0, 2)), BitAnd(message_type, 3))

\* create_test_samples.py / create_large_pcap.py: the size is a parameter
CreateEcpriHeader(message_type, rtc_id, seq_id, payload_size) ==
    Cat(Pack_B(EcpriByte0(message_type)),
    Cat(Pack_H_be(payload_size),
    Cat(Pack_H_be(rtc_id), Pack_H_be(seq_id))))

\* create_sample_pcap.py: the size is written as 0, to be patched later
SampleCreateEcpriHeader(message_type, rtc_id, seq_id) ==
    LET payload_size == 0
    IN  Cat(Pack_B(EcpriByte0(message_type)),
        Cat(Pack_H_be(payload_size),
        Cat(Pack_H_be(rtc_id), Pack_H_be(seq_id))))

\* the patch with the tail taken one byte too early: ecpri_header[2:]
PatchPayloadSizeFromByte2(ecpri_header, payload_size) ==
    IF IsErr(ecpri_header) THEN ecpri_header
    ELSE Cat(SubSeq(ecpri_header, 1, 1),
         Cat(Pack_H_be(payload_size), SubSeq(ecpri_header, 3, Len(ecpri_header))))

\* ecpri_header[:1] + struct.pack('>H', payload_size) + ecpri_header[3:]
PatchPayloadSize(ecpri_header, payload_size) ==
    IF IsErr(ecpri_header) THEN ecpri_header
    ELSE Cat(SubSeq(ecpri_header, 1, 1),
         Cat(Pack_H_be(payload_size), SubSeq(ecpri_header, 4, Len(ecpri_header))))

----------------------------------------------------------------------------
(* Application header: create_oran_header (identical in the three files)   *)

\* byte0 = (0 << 7) | (1 << 4) | (0 & 0x0f)
OranByte0 == BitOr(BitOr(Shl(0, 7), Shl(1, 4)), BitAnd(0, 15))

\* byte2 = (subframe_id << 4) | (slot_id & 0x0f)
OranByte2(subframe_id, slot_id) == BitOr(Shl(subframe_id, 4), BitAnd(slot_id, 15))

\* byte3 = (symbol_id << 2) | 0
OranByte3(symbol_id) == BitOr(Shl(symbol_id, 2), 0)

\* (section_id << 20) | (1 << 19) | (0 << 18) | (start_prbu << 8) | num_prbu
SectionFields(section_id, start_prbu, num_prbu) ==
    OrBits(OrBits(OrBits(OrBits(ShlBits(Bits(section_id), 20),
                                ShlBits(Bits(1), 19)),
                         ShlBits(Bits(0), 18)),
                  ShlBits(Bits(start_prbu), 8)),
           Bits(num_prbu))

\* struct.pack('>BBBB', byte0, frame_id, byte2, byte3) + struct.pack('>L', section_fields)
CreateOranHeader(frame_id, subframe_id, slot_id, symbol_id, section_id, start_prbu, num_prbu) ==
    Cat(Pack_B(OranByte0),
    Cat(Pack_B(frame_id),
    Cat(Pack_B(OranByte2(subframe_id, slot_id)),
    Cat(Pack_B(OranByte3(symbol_id)),
        Pack_L_be(SectionFields(section_id, start_prbu, num_prbu))))))

----------------------------------------------------------------------------
(* The random module.  Its module-level functions share one hidden          *)
(* generator; the state of that generator is the global variable rng.      *)
(* The generator is modelled in counter mode: the state is the seed and     *)
(* the number of draws since seeding, and each draw is a fixed function of  *)
(* the two.  What matters to the generators below is kept: seeding resets   *)
(* the whole state, a draw depends on the state alone and advances it.      *)

RandomRes == 10 * 100

Raw(g) ==
    ((g.key % 8191) * 7919 + (g.ctr % 8191) * 7907
       + (g.key % 251) * (g.ctr % 241) * 31 + 104729) % 65521

\* a seeding that takes the new key but keeps the position in the stream
RandomSeedKeepsPosition(g, a) == [key |-> a, ctr |-> g.ctr]

\* random.seed(a)
RandomSeed(g, a) == [key |-> a, ctr |-> 0]

\* the state after k further draws
Advance(g, k) == [g EXCEPT !.ctr = @ + k]

\* random.randint(a, b) in state g
RandInt(g, a, b) == a + (Raw(g) % (b - a + 1))

\* random.random() in state g, as a numerator over RandomRes
RandomUnit(g) == Raw(g) % RandomRes

----------------------------------------------------------------------------
(* Fixed-point trigonometry: an angle is a fraction num/den of a turn,      *)
(* quantised to AngleSteps steps; cosine and sine are in thousandths.       *)

AngleSteps == 4 * 32

Quarter == AngleSteps \div 4

\* cos on [-1/4, 1/4] turn: (1 - 16 u^2) / (1 + 4 u^2), u = m / AngleSteps
CosQ(m) ==
    ((AngleSteps * AngleSteps - 16 * m * m) * 1000)
        \div (AngleSteps * AngleSteps + 4 * m * m)

CosStep(k) ==
    IF k <= Quarter THEN CosQ(k)
    ELSE IF k < 3 * Quarter THEN 0 - CosQ(k - 2 * Quarter)
    ELSE CosQ(k - AngleSteps)

CosTable == [k \in 0..(AngleSteps - 1) |-> CosStep(k)]

AngleStep(num, den) == ((num % den) * AngleSteps) \div den

\* math.cos(2*pi*num/den) * 1000
CosMilli(num, den) == CosTable[AngleStep(num, den)]

\* math.sin(2*pi*num/den) * 1000
SinMilli(num, den) == CosTable[(AngleStep(num, den) - Quarter) % AngleSteps]

\* int(x) for x = v / 1000: truncation toward zero
TruncMilli(v) == IF v >= 0 THEN v \div 1000 ELSE 0 - ((0 - v) \div 1000)

\* max(-32768, min(32767, v))
Clamp16(v) == IF v > 32767 THEN 32767 ELSE IF v < -32768 THEN -32768 ELSE v

InInt16(v) == v \in (-32768)..32767

\* b''.join(struct.pack('>hh', i_sample, q_sample) for each pair of smp);
\* struct.error if a value does not fit a signed 16-bit field
JoinSamples(smp) ==
    LET pairs == smp \o <<>>
    IN  IF \E i \in 1..Len(pairs) : ~InInt16(pairs[i][1]) \/ ~InInt16(pairs[i][2])
        THEN StructError
        ELSE [k \in 1..(4 * Len(pairs)) |->
                LET pair == pairs[((k - 1) \div 4) + 1]
                    v == IF (k - 1) % 4 < 2 THEN pair[1] ELSE pair[2]
                IN  Pack_h_be(v)[((k - 1) % 2) + 1]] \o <<>>

----------------------------------------------------------------------------
(* IQ generators.  Each returns [out |-> bytes or exception, rng |-> the    *)
(* state in which it leaves the shared generator].                          *)

\* 273 PRBs * 12 subcarriers, the block size every assembler asks for
SamplesPerPacket == 273 * 12

\* random.randint(-100, 100)
IqNoiseRange == <<-100, 100>>

\* create_sample_pcap.py: the sample pairs of a sine of amplitude 1000, the
\* values that randint(-100, 100) returned being noise[1], noise[2], ...
IqSamples(num_samples, noise) ==
    LET amplitude == 1000
    IN  [k \in 1..num_samples |->
           LET i == k - 1
               ri == noise[2 * i + 1]
               rq == noise[2 * i + 2]
           IN  <<Clamp16(TruncMilli(amplitude * CosMilli(i, num_samples) + 1000 * ri)),
                 Clamp16(TruncMilli(amplitude * SinMilli(i, num_samples) + 1000 * rq))>>]

GenerateIqSamples(g, num_samples) ==
    LET noise == [j \in 1..(2 * num_samples) |->
                    RandInt(Advance(g, j - 1), IqNoiseRange[1], IqNoiseRange[2])]
    IN  [out |-> JoinSamples(IqSamples(num_samples, noise)),
         rng |-> Advance(g, 2 * num_samples)]

\* random.randint(-5000, 5000)
PatternNoiseRange == <<-5000, 5000>>

\* create_test_samples.py: one (I, Q) pair of the named pattern, before
\* clamping; ri and rq are what randint(-5000, 5000) returns for the noise
PatternPair(num_samples, pattern, i, ri, rq) ==
    IF pattern = "sine"
    THEN <<TruncMilli(2000 * CosMilli(2 * i, num_samples)),
           TruncMilli(2000 * SinMilli(2 * i, num_samples))>>
    ELSE IF pattern = "noise"
    THEN <<ri, rq>>
    ELSE IF pattern = "chirp"
    THEN LET num == 10 * i * num_samples + 90 * i * i
             den == num_samples * num_samples
         IN  <<TruncMilli(3000 * CosMilli(num, den)), TruncMilli(3000 * SinMilli(num, den))>>
    ELSE IF pattern = "low_power"
    THEN <<TruncMilli(100 * CosMilli(i, num_samples)),
           TruncMilli(100 * SinMilli(i, num_samples))>>
    ELSE <<TruncMilli(8000 * CosMilli(i, num_samples)),
           TruncMilli(8000 * SinMilli(i, num_samples))>>

\* the clamped sample pairs, the values randint returned being noise[1], ...
PatternSamples(num_samples, pattern, noise) ==
    [k \in 1..num_samples |->
        LET i == k - 1
            raw == PatternPair(num_samples, pattern, i,
                               IF pattern = "noise" THEN noise[2 * i + 1] ELSE 0,
                               IF pattern = "noise" THEN noise[2 * i + 2] ELSE 0)
        IN  <<Clamp16(raw[1]), Clamp16(raw[2])>>]

PatternBlock(g, num_samples, pattern) ==
    LET noise == [j \in 1..(2 * num_samples) |->
                    RandInt(Advance(g, j - 1), PatternNoiseRange[1], PatternNoiseRange[2])]
    IN  JoinSamples(PatternSamples(num_samples, pattern, noise))

\* Only the noise draws from the generator; the block of any other pattern is
\* the same in every call, and the blocks of the packet size are held here.
FixedBlocks ==
    [sine |-> PatternBlock([key |-> 0, ctr |-> 0], SamplesPerPacket, "sine"),
     chirp |-> PatternBlock([key |-> 0, ctr |-> 0], SamplesPerPacket, "chirp"),
     low_power |-> PatternBlock([key |-> 0, ctr |-> 0], SamplesPerPacket, "low_power"),
     high_power |-> PatternBlock([key |-> 0, ctr |-> 0], SamplesPerPacket, "high_power")]

GenerateIqSamplesWithPattern(g, num_samples, pattern) ==
    [out |-> IF num_samples = SamplesPerPacket /\ pattern \in DOMAIN FixedBlocks
             THEN FixedBlocks[pattern]
             ELSE PatternBlock(g, num_samples, pattern),
     rng |-> IF pattern = "noise" THEN Advance(g, 2 * num_samples) ELSE g]

\* create_large_pcap.py, generate_iq_samples_fast.  The draws of one
\* invocation, in order: the amplitude jitter, then for the sine the
\* frequency and the phase, for the noise two draws per sample.
FastDrawCount(num_samples, pattern_type) ==
    IF pattern_type = 0 THEN 3
    ELSE IF pattern_type = 1 THEN 1 + 2 * num_samples
    ELSE 1

\* a noise draw over 32 times the amplitude
FastDrawRangeWideNoise(pattern_type, j, first) ==
    IF pattern_type = 0
    THEN (IF j = 1 THEN <<-500, 500>> ELSE <<0, RandomRes - 1>>)
    ELSE IF pattern_type = 1
    THEN (IF j = 1 THEN <<-300, 300>>
          ELSE <<0 - 32 * (1000 + first), 32 * (1000 + first)>>)
    ELSE IF pattern_type = 2 THEN <<-50, 50>>
    ELSE <<-1000, 1000>>

\* the least and the greatest value draw number j can return; first is the
\* value draw number 1 returned.  random.random() is a numerator over RandomRes.
FastDrawRange(pattern_type, j, first) ==
    IF pattern_type = 0
    THEN (IF j = 1 THEN <<-500, 500>> ELSE <<0, RandomRes - 1>>)
    ELSE IF pattern_type = 1
    THEN (IF j = 1 THEN <<-300, 300>>
          ELSE <<0 - (1000 + first), 1000 + first>>)
    ELSE IF pattern_type = 2 THEN <<-50, 50>>
    ELSE <<-1000, 1000>>

\* the value of draw number j taken in generator state g
FastDraw(g, pattern_type, j, first) ==
    LET range == FastDrawRange(pattern_type, j, first)
    IN  IF pattern_type = 0 /\ j > 1 THEN RandomUnit(g)
        ELSE RandInt(g, range[1], range[2])

\* the sample pairs computed from the values drawn
FastSamples(num_samples, pattern_type, drawn) ==
    [k \in 1..num_samples |->
        LET i == k - 1 IN
        IF pattern_type = 0
        THEN LET amplitude == 2000 + drawn[1]
                 num == i * (RandomRes + 3 * drawn[2]) + drawn[3] * num_samples
                 den == num_samples * RandomRes
             IN  <<Clamp16(TruncMilli(amplitude * CosMilli(num, den))),
                   Clamp16(TruncMilli(amplitude * SinMilli(num, den)))>>
        ELSE IF pattern_type = 1
        THEN <<drawn[2 * i + 2], drawn[2 * i + 3]>>
        ELSE IF pattern_type = 2
        THEN LET amplitude == 200 + drawn[1]
             IN  <<TruncMilli(amplitude * CosMilli(i, num_samples)),
                   TruncMilli(amplitude * SinMilli(i, num_samples))>>
        ELSE LET amplitude == 6000 + drawn[1]
             IN  <<Clamp16(TruncMilli(amplitude * CosMilli(i, num_samples))),
                   Clamp16(TruncMilli(amplitude * SinMilli(i, num_samples)))>>]

FastOutput(num_samples, pattern_type, drawn) ==
    JoinSamples(FastSamples(num_samples, pattern_type, drawn))

\* the whole invocation run without interruption from generator state g
GenerateIqSamplesFast(g, num_samples, pattern_type, seed) ==
    LET g0 == RandomSeed(g, seed)
        count == FastDrawCount(num_samples, pattern_type)
        first == FastDraw(g0, pattern_type, 1, 0)
        drawn == [j \in 1..count |-> FastDraw(Advance(g0, j - 1), pattern_type, j, first)]
    IN  [out |-> FastOutput(num_samples, pattern_type, drawn),
         rng |-> Advance(g0, count)]

----------------------------------------------------------------------------
(* Packet assemblers.  Each returns the parts and the packet, and the state *)
(* in which it leaves the shared generator.                                 *)

\* the parts joined with the transport header in front of the link layer
AssembledTransportFirst(g, eth_header, ecpri_header, oran_header, iq) ==
    LET data == Cat(ecpri_header, Cat(eth_header, Cat(oran_header, iq.out)))
    IN  IF IsErr(data)
        THEN [eth |-> data, ecpri |-> data, oran |-> data, iq |-> data, data |-> data,
              rng |-> IF IsErr(eth_header) \/ IsErr(oran_header) THEN g ELSE iq.rng]
        ELSE [eth |-> eth_header, ecpri |-> ecpri_header, oran |-> oran_header,
              iq |-> iq.out, data |-> data, rng |-> iq.rng]

\* An exception leaves nothing returned.  The headers are built before the
\* IQ block, so an exception in them leaves the generator where it was.
Assembled(g, eth_header, ecpri_header, oran_header, iq) ==
    LET data == Cat(eth_header, Cat(ecpri_header, Cat(oran_header, iq.out)))
    IN  IF IsErr(data)
        THEN [eth |-> data, ecpri |-> data, oran |-> data, iq |-> data, data |-> data,
              rng |-> IF IsErr(eth_header) \/ IsErr(oran_header) THEN g ELSE iq.rng]
        ELSE [eth |-> eth_header, ecpri |-> ecpri_header, oran |-> oran_header,
              iq |-> iq.out, data |-> data, rng |-> iq.rng]

\* len(oran_header) + len(iq_data); unused when either call has raised
PayloadSize(oran_header, iq_data) ==
    IF IsErr(oran_header) \/ IsErr(iq_data) THEN 0
    ELSE Len(oran_header) + Len(iq_data)

\* create_sample_pcap.py, create_oran_packet
SampleCreateOranPacket(g, rtc_id, seq_id, frame_id, symbol_id) ==
    LET eth_header == CreateEthernetHeader(DefaultSrcMac, DefaultDstMac)
        oran_header == CreateOranHeader(frame_id, 0, 0, symbol_id, 0, 0, 273)
        iq == GenerateIqSamples(g, SamplesPerPacket)
        payload_size == PayloadSize(oran_header, iq.out)
        ecpri_header == SampleCreateEcpriHeader(0, rtc_id, seq_id)
        patched == PatchPayloadSize(ecpri_header, payload_size)
    IN  Assembled(g, eth_header, patched, oran_header, iq)

\* create_test_samples.py, create_oran_packet
TestCreateOranPacket(g, rtc_id, seq_id, frame_id, symbol_id, pattern) ==
    LET eth_header == CreateEthernetHeader(DefaultSrcMac, DefaultDstMac)
        oran_header == CreateOranHeader(frame_id, 0, 0, symbol_id, 0, 0, 273)
        iq == GenerateIqSamplesWithPattern(g, SamplesPerPacket, pattern)
        payload_size == PayloadSize(oran_header, iq.out)
        ecpri_header == CreateEcpriHeader(0, rtc_id, seq_id, payload_size)
    IN  Assembled(g, eth_header, ecpri_header, oran_header, iq)

\* create_large_pcap.py, create_oran_packet_fast
CreateOranPacketFast(g, packet_id) ==
    LET rtc_id == 4096 + (packet_id % 8)
        frame_id == (packet_id \div 140) % 1024
        slot_id == (packet_id \div 14) % 10
        symbol_id == packet_id % 14
        section_id == packet_id % 4096
        eth_header == CreateEthernetHeader(DefaultSrcMac, DefaultDstMac)
        oran_header == CreateOranHeader(frame_id, (slot_id \div 2) % 10, slot_id,
                                        symbol_id, section_id, 0, 273)
        pattern_type == packet_id % 4
        iq == GenerateIqSamplesFast(g, SamplesPerPacket, pattern_type, packet_id)
        payload_size == PayloadSize(oran_header, iq.out)
        ecpri_header == CreateEcpriHeader(0, rtc_id, BitAnd(packet_id, 65535), payload_size)
    IN  Assembled(g, eth_header, ecpri_header, oran_header, iq)

----------------------------------------------------------------------------
(* State                                                                   *)

callVars == <<call, returned, ret>>

writerVars == <<writer, pc, f, fed, base_time, num_packets, loop_i, batch_start,
                batch_end, packet_data, packet_header>>

iqVars == <<outputs, threads, draws>>

vars == <<rng, callVars, writerVars, iqVars>>

\* no call is under examination
NoCall == call = [fn |-> "none"] /\ returned = FALSE /\ ret = <<>>

\* no writer is running
NoWriter ==
    /\ writer = "none" /\ pc = "idle" /\ f = <<>> /\ fed = <<>>
    /\ base_time = [s |-> 0, t |-> 0] /\ num_packets = 0 /\ loop_i = 0
    /\ batch_start = 0 /\ batch_end = 0 /\ packet_data = <<>> /\ packet_header = <<>>

\* no invocation of the seeded generator recorded, no thread running it
NoIq == outputs = <<>> /\ threads = <<>> /\ draws = <<>>

\* The generator is seeded from the operating system when random is
\* imported: any seed, no draw taken yet.
MaxInitialSeed == 2

InitialRng == {[key |-> k, ctr |-> 0] : k \in 1..MaxInitialSeed}

----------------------------------------------------------------------------
(* SpecCall: one call of one encoder or assembler, arguments drawn from     *)
(* the sets below.                                                          *)

MaxPacketId == 7

\* packet indices: the first few, and the ones around each field's limit
PacketIds == (0..MaxPacketId) \cup {139, 140, 35839, 35840, 65535, 65536, 143359, 143360}

BadMac == <<"0", "0", ":", "1", "1", ":", "2", "2", ":", "3", "3", ":", "4", "4", ":", "g", "g">>

\* valid hex, five octets and seven octets
ShortMac == <<"0", "0", ":", "1", "1", ":", "2", "2", ":", "3", "3", ":", "4", "4">>

LongMac == <<"a", "a", ":", "b", "b", ":", "c", "c", ":", "d", "d", ":", "e", "e", ":",
             "f", "f", ":", "0", "0">>

MacStrings == {DefaultSrcMac, DefaultDstMac, BadMac, ShortMac, LongMac}

EthernetCalls ==
    {[fn |-> "create_ethernet_header", src_mac |-> s, dst_mac |-> d] :
        s \in MacStrings, d \in MacStrings}

EcpriCalls ==
    {[fn |-> fname, message_type |-> m, rtc_id |-> r, seq_id |-> q, payload_size |-> z] :
        fname \in {"create_ecpri_header", "sample.create_ecpri_header"},
        m \in 0..4, r \in {0, 4660, 65535}, q \in {0, 1, 65535, 65536},
        z \in {0, 13112, 65535, 65536}}

OranCalls ==
    {[fn |-> "create_oran_header", frame_id |-> fr, subframe_id |-> sf, slot_id |-> sl,
      symbol_id |-> sy, section_id |-> se, start_prbu |-> sp, num_prbu |-> np] :
        fr \in {0, 5, 255, 256}, sf \in {0, 3, 15, 16}, sl \in {0, 9, 15, 16},
        sy \in {0, 13, 63, 64}, se \in {0, 100, 4095, 4096},
        sp \in {0, 1, 1023}, np \in {0, 17, 255, 273}}

SamplePacketCalls ==
    {[fn |-> "sample.create_oran_packet", rtc_id |-> r, seq_id |-> q, frame_id |-> fr,
      symbol_id |-> sy] :
        r \in {4660, 39612}, q \in {0, 7}, fr \in {0, 4}, sy \in {0, 3}}

Patterns == {"sine", "noise", "chirp", "low_power", "high_power"}

TestPacketCalls ==
    {[fn |-> "create_oran_packet", rtc_id |-> r, seq_id |-> q, frame_id |-> fr,
      symbol_id |-> sy, pattern |-> p] :
        r \in {4660}, q \in {0, 279}, fr \in {0, 1}, sy \in {0, 13}, p \in Patterns}

FastPacketCalls == {[fn |-> "create_oran_packet_fast", packet_id |-> k] : k \in PacketIds}

InitCall ==
    /\ rng \in InitialRng
    /\ NoIq
    /\ \/ call \in EthernetCalls
       \/ call \in EcpriCalls
       \/ call \in OranCalls
       \/ call \in SamplePacketCalls
       \/ call \in TestPacketCalls
       \/ call \in FastPacketCalls
    /\ returned = FALSE
    /\ ret = <<>>
    /\ NoWriter

CallCreateEthernetHeader ==
    /\ ~returned /\ call.fn = "create_ethernet_header"
    /\ ret' = CreateEthernetHeader(call.src_mac, call.dst_mac)
    /\ returned' = TRUE
    /\ UNCHANGED <<rng, call, writerVars, iqVars>>

CallCreateEcpriHeader ==
    /\ ~returned /\ call.fn = "create_ecpri_header"
    /\ ret' = CreateEcpriHeader(call.message_type, call.rtc_id, call.seq_id, call.payload_size)
    /\ returned' = TRUE
    /\ UNCHANGED <<rng, call, writerVars, iqVars>>

CallSampleCreateEcpriHeader ==
    /\ ~returned /\ call.fn = "sample.create_ecpri_header"
    /\ ret' = SampleCreateEcpriHeader(call.message_type, call.rtc_id, call.seq_id)
    /\ returned' = TRUE
    /\ UNCHANGED <<rng, call, writerVars, iqVars>>

CallCreateOranHeader ==
    /\ ~returned /\ call.fn = "create_oran_header"
    /\ ret' = CreateOranHeader(call.frame_id, call.subframe_id, call.slot_id, call.symbol_id,
                               call.section_id, call.start_prbu, call.num_prbu)
    /\ returned' = TRUE
    /\ UNCHANGED <<rng, call, writerVars, iqVars>>

CallSampleCreateOranPacket ==
    /\ ~returned /\ call.fn = "sample.create_oran_packet"
    /\ ret' = SampleCreateOranPacket(rng, call.rtc_id, call.seq_id, call.frame_id,
                                     call.symbol_id)
    /\ rng' = ret'.rng
    /\ returned' = TRUE
    /\ UNCHANGED <<call, writerVars, iqVars>>

CallTestCreateOranPacket ==
    /\ ~returned /\ call.fn = "create_oran_packet"
    /\ ret' = TestCreateOranPacket(rng, call.rtc_id, call.seq_id, call.frame_id,
                                   call.symbol_id, call.pattern)
    /\ rng' = ret'.rng
    /\ returned' = TRUE
    /\ UNCHANGED <<call, writerVars, iqVars>>

CallCreateOranPacketFast ==
    /\ ~returned /\ call.fn = "create_oran_packet_fast"
    /\ ret' = CreateOranPacketFast(rng, call.packet_id)
    /\ rng' = ret'.rng
    /\ returned' = TRUE
    /\ UNCHANGED <<call, writerVars, iqVars>>

NextCall ==
    \/ CallCreateEthernetHeader
    \/ CallCreateEcpriHeader
    \/ CallSampleCreateEcpriHeader
    \/ CallCreateOranHeader
    \/ CallSampleCreateOranPacket
    \/ CallTestCreateOranPacket
    \/ CallCreateOranPacketFast

SpecCall == InitCall /\ [][NextCall]_vars

----------------------------------------------------------------------------
(* Properties of single calls (SpecCall)                                   *)

IsPacketCall ==
    call.fn \in {"sample.create_oran_packet", "create_oran_packet", "create_oran_packet_fast"}

PacketReturned == returned /\ IsPacketCall /\ ~IsErr(ret.data)

\* the payload-size field as a consumer reads it from the packet: bytes 1-2
\* of the transport header, which starts after the 14 bytes of Ethernet
PayloadSizeField(packet) == Unpack_H_be(packet, 14 + 2)

\* C1: every packet an assembler returns carries, at bytes 1-2 of its
\* transport header, len(application header) + len(IQ block), and the header
\* patched by create_sample_pcap.py equals the one encoded with that size.
C1_PayloadSizeExact ==
    PacketReturned =>
        /\ Unpack_H_be(ret.ecpri, 2) = Len(ret.oran) + Len(ret.iq)
        /\ PayloadSizeField(ret.data) = Len(ret.oran) + Len(ret.iq)
        /\ call.fn = "sample.create_oran_packet" =>
              ret.ecpri = CreateEcpriHeader(0, call.rtc_id, call.seq_id,
                                            Len(ret.oran) + Len(ret.iq))

C1_Witness ==
    /\ PacketReturned
    /\ call.fn = "sample.create_oran_packet"
    /\ PayloadSizeField(ret.data) = 13112

\* C2: create_oran_packet_fast succeeds for every packet index 0..65536 and
\* the sequence_id field is the index modulo 65536.
C2_SequenceWraps ==
    (returned /\ call.fn = "create_oran_packet_fast" /\ call.packet_id <= 65536) =>
        /\ ~IsErr(ret.data)
        /\ Unpack_H_be(ret.ecpri, 6) = call.packet_id % 65536

\* the fields of an application header, read per the documented layout
DecodeOran(h) ==
    [frame_id |-> h[2],
     subframe_id |-> h[3] \div 16,
     slot_id |-> h[3] % 16,
     symbol_id |-> h[4] \div 4,
     reserved |-> h[4] % 4,
     section_id |-> h[5] * 16 + (h[6] \div 16),
     rb |-> (h[6] \div 8) % 2,
     symInc |-> (h[6] \div 4) % 2,
     start_prbu |-> (h[6] % 4) * 256 + h[7],
     num_prbu |-> h[8]]

\* C3: create_oran_header(5, 3, 9, 13, 100, 0, 273) decodes back to exactly
\* the seven values passed.
C3_RoundTrip ==
    (returned /\ call.fn = "create_oran_header"
       /\ call.frame_id = 5 /\ call.subframe_id = 3 /\ call.slot_id = 9
       /\ call.symbol_id = 13 /\ call.section_id = 100
       /\ call.start_prbu = 0 /\ call.num_prbu = 273) =>
        /\ ~IsErr(ret)
        /\ Len(ret) = 8
        /\ DecodeOran(ret).frame_id = 5
        /\ DecodeOran(ret).subframe_id = 3
        /\ DecodeOran(ret).slot_id = 9
        /\ DecodeOran(ret).symbol_id = 13
        /\ DecodeOran(ret).section_id = 100
        /\ DecodeOran(ret).start_prbu = 0
        /\ DecodeOran(ret).num_prbu = 273

\* C4: for any non-negative subframe, slot, symbol and section id (the other
\* arguments within their fields) create_oran_header does not raise, and
\* each of the four fields holds the argument masked to its width.
C4_MaskedNeverRaises ==
    (returned /\ call.fn = "create_oran_header"
       /\ call.frame_id <= 255 /\ call.start_prbu <= 1023 /\ call.num_prbu <= 255) =>
        /\ ~IsErr(ret)
        /\ Len(ret) = 8
        /\ DecodeOran(ret).subframe_id = call.subframe_id % 16
        /\ DecodeOran(ret).slot_id = call.slot_id % 16
        /\ DecodeOran(ret).symbol_id = call.symbol_id % 64
        /\ DecodeOran(ret).section_id = call.section_id % 4096

\* C5: create_oran_packet_fast succeeds for every packet index and the
\* frame-id byte is the frame counter packet_id // 140 modulo 256.
C5_FrameIdWraps ==
    (returned /\ call.fn = "create_oran_packet_fast") =>
        /\ ~IsErr(ret.data)
        /\ ret.oran[2] = (call.packet_id \div 140) % 256

IsMac(mac_str) == ~IsErr(MacToBytes(mac_str)) /\ Len(MacToBytes(mac_str)) = 6

\* the arguments the spec calls valid for each encoder
ValidCall ==
    \/ /\ call.fn = "create_ethernet_header"
       /\ IsMac(call.src_mac) /\ IsMac(call.dst_mac)
    \/ /\ call.fn \in {"create_ecpri_header", "sample.create_ecpri_header"}
       /\ call.message_type <= 3 /\ call.rtc_id <= 65535
       /\ call.seq_id <= 65535 /\ call.payload_size <= 65535
    \/ /\ call.fn = "create_oran_header"
       /\ call.frame_id <= 255 /\ call.subframe_id <= 15 /\ call.slot_id <= 15
       /\ call.symbol_id <= 63 /\ call.section_id <= 4095
       /\ call.start_prbu <= 1023 /\ call.num_prbu <= 273

HeaderLength ==
    IF call.fn = "create_ethernet_header" THEN 14
    ELSE IF call.fn = "create_oran_header" THEN 8
    ELSE 7

\* C6: for valid arguments the Ethernet header is 14 bytes, the transport
\* header 7 and the application header 8; a packet is Ethernet ++ transport
\* ++ application ++ IQ block, 14 + 7 + 8 + 4*count bytes long, which for
\* count = 3276 is 13133 bytes with a payload-size field of 13112.
C6_LayoutAndLengths ==
    /\ (returned /\ ~IsPacketCall /\ ValidCall) =>
          (~IsErr(ret) /\ Len(ret) = HeaderLength)
    /\ PacketReturned =>
          /\ Len(ret.eth) = 14 /\ Len(ret.ecpri) = 7 /\ Len(ret.oran) = 8
          /\ Len(ret.iq) = 4 * SamplesPerPacket
          /\ ret.data = ret.eth \o ret.ecpri \o ret.oran \o ret.iq
          /\ SubSeq(ret.data, 1, 14) = CreateEthernetHeader(DefaultSrcMac, DefaultDstMac)
          /\ Len(ret.data) = 14 + 7 + 8 + 4 * SamplesPerPacket
          /\ SamplesPerPacket = 3276 =>
                (Len(ret.data) = 13133 /\ PayloadSizeField(ret.data) = 13112)

C6_Witness ==
    /\ PacketReturned
    /\ call.fn = "create_oran_packet"
    /\ call.pattern = "sine"
    /\ Len(ret.data) = 13133

\* C12: create_ethernet_header either raises or returns exactly 14 bytes, the
\* 6-byte destination, the 6-byte source and the EtherType 0xAEFE; a MAC
\* string of another number of octets never yields a header of another length.
C12_HeaderOrError ==
    (returned /\ call.fn = "create_ethernet_header") =>
        \/ IsErr(ret)
        \/ /\ Len(ret) = 14
           /\ SubSeq(ret, 1, 6) = MacToBytes(call.dst_mac)
           /\ SubSeq(ret, 7, 12) = MacToBytes(call.src_mac)
           /\ SubSeq(ret, 13, 14) = <<174, 254>>

----------------------------------------------------------------------------
(* SpecWriter: the five writer functions.  Each opens the file, writes the  *)
(* global header, reads the clock and then, per packet, builds the packet   *)
(* and its record header and issues two writes.                             *)

\* packet_configs of create_sample_pcap
PacketConfigs ==
    << [rtc_id |-> 4660, frame_id |-> 0, symbol_id |-> 0],
       [rtc_id |-> 4660, frame_id |-> 0, symbol_id |-> 1],
       [rtc_id |-> 4660, frame_id |-> 0, symbol_id |-> 2],
       [rtc_id |-> 22136, frame_id |-> 1, symbol_id |-> 0],
       [rtc_id |-> 22136, frame_id |-> 1, symbol_id |-> 1],
       [rtc_id |-> 39612, frame_id |-> 2, symbol_id |-> 0],
       [rtc_id |-> 4660, frame_id |-> 3, symbol_id |-> 3],
       [rtc_id |-> 22136, frame_id |-> 4, symbol_id |-> 2] >>

\* patterns of create_test_pcap_rms_variations
RmsPatterns ==
    << [pattern |-> "low_power", rtc_id |-> 8192],
       [pattern |-> "sine", rtc_id |-> 8193],
       [pattern |-> "high_power", rtc_id |-> 8194],
       [pattern |-> "chirp", rtc_id |-> 8195],
       [pattern |-> "noise", rtc_id |-> 8196] >>

\* batch_size of create_large_pcap
BatchSize == 100

\* create_large_pcap's num_packets argument: none, a few, and counts that
\* end on and just past a batch boundary
MaxFewPackets == 2

MaxPastBatch == 1

LargePacketCounts ==
    (0..MaxFewPackets) \cup {BatchSize + k : k \in 0..MaxPastBatch}

Writers ==
    {"create_sample_pcap", "create_test_pcap_simple", "create_test_pcap_rms_variations",
     "create_test_pcap_frame_sequence", "create_large_pcap"}

\* the number of packets each fixed writer emits
FixedCount(w) ==
    IF w = "create_sample_pcap" THEN Len(PacketConfigs)
    ELSE IF w = "create_test_pcap_simple" THEN 5
    ELSE IF w = "create_test_pcap_rms_variations" THEN Len(RmsPatterns)
    ELSE 2 * 10 * 14

\* what time.time() may return: on a microsecond, between microseconds, and
\* close enough to the end of a second for the run to cross it
BaseTimes ==
    {Timestamp(1700000000, 0), Timestamp(1700000000, 1234567),
     Timestamp(1700000001, 9989999)}

InitWriter ==
    /\ rng \in InitialRng
    /\ NoCall
    /\ NoIq
    /\ writer \in Writers
    /\ num_packets \in (IF writer = "create_large_pcap" THEN LargePacketCounts
                        ELSE {FixedCount(writer)})
    /\ pc = "open"
    /\ f = <<>> /\ fed = <<>>
    /\ base_time = Timestamp(0, 0)
    /\ loop_i = 0 /\ batch_start = 0 /\ batch_end = 0
    /\ packet_data = <<>> /\ packet_header = <<>>

\* The file is held as the writes made on it.  Of each write the offset, the
\* length, the leading HeadLen bytes (all the headers of a packet) and the
\* trailing TailLen bytes (its last sample pair) are kept; the IQ bytes in
\* between are not inspected by any reader of the container and are left out.
HeadLen == 14 + 7 + 8

TailLen == 2 * 2

Min(a, b) == IF a <= b THEN a ELSE b

FileSize(file) == IF file = <<>> THEN 0 ELSE file[Len(file)].at + file[Len(file)].len

\* f.write(b): the bytes are appended at the end of the file
FileWrite(file, b) ==
    Append(file, [at |-> FileSize(file),
                  len |-> Len(b),
                  head |-> SubSeq(b, 1, Min(Len(b), HeadLen)),
                  tail |-> SubSeq(b, Len(b) - Min(Len(b), TailLen) + 1, Len(b))])

\* with open(filename, 'wb') as f: f.write(create_pcap_global_header())
WriteGlobalHeader ==
    /\ pc = "open"
    /\ f' = FileWrite(f, CreatePcapGlobalHeader)
    /\ pc' = "clock"
    /\ UNCHANGED <<iqVars, rng, callVars, writer, fed, base_time, num_packets, loop_i, batch_start,
                   batch_end, packet_data, packet_header>>

\* base_time = time.time()
ReadClock ==
    /\ pc = "clock"
    /\ base_time' \in BaseTimes
    /\ pc' = IF writer = "create_large_pcap" THEN "batch" ELSE "loop"
    /\ UNCHANGED <<iqVars, rng, callVars, writer, f, fed, num_packets, loop_i, batch_start,
                   batch_end, packet_data, packet_header>>

\* packet_header = create_packet_header(packet_data, packet_timestamp)
\* f.write(packet_header)
\* An exception in the assembler ends the writer with nothing more written.
\* asm is what the assembler returned.
HeaderStep(asm, packet_timestamp) ==
    /\ rng' = asm.rng
    /\ packet_data' = asm.data
    /\ IF IsErr(asm.data)
       THEN /\ pc' = "raised"
            /\ UNCHANGED <<f, fed, packet_header>>
       ELSE LET hdr == CreatePacketHeader(asm.data, packet_timestamp)
            IN  /\ packet_header' = hdr
                /\ fed' = Append(fed, [timestamp |-> packet_timestamp,
                                       length |-> Len(asm.data),
                                       head |-> SubSeq(asm.data, 1, HeadLen),
                                       tail |-> SubSeq(asm.data, Len(asm.data) - TailLen + 1,
                                                       Len(asm.data))])
                /\ f' = FileWrite(f, hdr)
                /\ pc' = "data"
    /\ UNCHANGED <<iqVars, callVars, writer, base_time, num_packets, loop_i, batch_start, batch_end>>

\* create_sample_pcap: for i, config in enumerate(packet_configs)
SamplePacket ==
    /\ pc = "loop" /\ writer = "create_sample_pcap" /\ loop_i < num_packets
    /\ LET config == PacketConfigs[loop_i + 1]
       IN  \E asm \in {SampleCreateOranPacket(rng, config.rtc_id, loop_i, config.frame_id,
                                              config.symbol_id)} :
               HeaderStep(asm, TsAdd(base_time, loop_i * 10000))

\* create_test_pcap_simple: for i in range(5)
SimplePacket ==
    /\ pc = "loop" /\ writer = "create_test_pcap_simple" /\ loop_i < num_packets
    /\ \E asm \in {TestCreateOranPacket(rng, 4096 + loop_i, loop_i, loop_i \div 2, loop_i % 4, "sine")} :
           HeaderStep(asm, TsAdd(base_time, loop_i * 10000))

\* create_test_pcap_rms_variations: for i, (pattern, rtc_id) in enumerate(patterns)
RmsPacket ==
    /\ pc = "loop" /\ writer = "create_test_pcap_rms_variations" /\ loop_i < num_packets
    /\ LET entry == RmsPatterns[loop_i + 1]
       IN  \E asm \in {TestCreateOranPacket(rng, entry.rtc_id, loop_i, 0, loop_i, entry.pattern)} :
               HeaderStep(asm, TsAdd(base_time, loop_i * 20000))

\* create_test_pcap_frame_sequence: the three nested loops, i = packet_count
FrameSequencePacket ==
    /\ pc = "loop" /\ writer = "create_test_pcap_frame_sequence" /\ loop_i < num_packets
    /\ LET frame == loop_i \div (10 * 14)
           slot == (loop_i \div 14) % 10
           symbol == loop_i % 14
       IN  \E asm \in {TestCreateOranPacket(rng, 12288, loop_i, frame, symbol, "sine")} :
               HeaderStep(asm, TsAdd(base_time, (frame * 10 + slot) * 10000 + symbol * 700))

\* the loop with the global header written at the head of every batch
LargeBatchWritesHeader ==
    /\ pc = "batch" /\ writer = "create_large_pcap"
    /\ IF batch_start < num_packets
       THEN /\ batch_end' = (IF batch_start + BatchSize < num_packets
                             THEN batch_start + BatchSize ELSE num_packets)
            /\ loop_i' = batch_start
            /\ f' = FileWrite(f, CreatePcapGlobalHeader)
            /\ pc' = "loop"
       ELSE /\ pc' = "done"
            /\ UNCHANGED <<batch_end, loop_i, f>>
    /\ UNCHANGED <<iqVars, rng, callVars, writer, fed, base_time, num_packets,
                   batch_start, packet_data, packet_header>>

\* create_large_pcap: for batch_start in range(0, num_packets, batch_size)
LargeBatch ==
    /\ pc = "batch" /\ writer = "create_large_pcap"
    /\ IF batch_start < num_packets
       THEN /\ batch_end' = (IF batch_start + BatchSize < num_packets
                             THEN batch_start + BatchSize ELSE num_packets)
            /\ loop_i' = batch_start
            /\ pc' = "loop"
       ELSE /\ pc' = "done"
            /\ UNCHANGED <<batch_end, loop_i>>
    /\ UNCHANGED <<iqVars, rng, callVars, writer, f, fed, base_time, num_packets,
                   batch_start, packet_data, packet_header>>

\* create_large_pcap: for i in range(batch_start, batch_end)
LargePacket ==
    /\ pc = "loop" /\ writer = "create_large_pcap" /\ loop_i < batch_end
    /\ \E asm \in {CreateOranPacketFast(rng, loop_i)} :
           HeaderStep(asm, TsAdd(base_time, loop_i * 714))

\* create_large_pcap: the batch is exhausted
LargeBatchEnd ==
    /\ pc = "loop" /\ writer = "create_large_pcap" /\ loop_i >= batch_end
    /\ batch_start' = batch_start + BatchSize
    /\ pc' = "batch"
    /\ UNCHANGED <<iqVars, rng, callVars, writer, f, fed, base_time, num_packets, loop_i,
                   batch_end, packet_data, packet_header>>

\* f.write(packet_data), and on to the next iteration
WritePacketData ==
    /\ pc = "data"
    /\ f' = FileWrite(f, packet_data)
    /\ loop_i' = loop_i + 1
    /\ pc' = "loop"
    /\ UNCHANGED <<iqVars, rng, callVars, writer, fed, base_time, num_packets, batch_start,
                   batch_end, packet_data, packet_header>>

\* the packet loop of a fixed writer is exhausted; the with block closes f
LoopEnd ==
    /\ pc = "loop" /\ writer # "create_large_pcap" /\ loop_i >= num_packets
    /\ pc' = "done"
    /\ UNCHANGED <<iqVars, rng, callVars, writer, f, fed, base_time, num_packets, loop_i,
                   batch_start, batch_end, packet_data, packet_header>>

NextWriter ==
    \/ WriteGlobalHeader
    \/ ReadClock
    \/ SamplePacket
    \/ SimplePacket
    \/ RmsPacket
    \/ FrameSequencePacket
    \/ LargeBatch
    \/ LargePacket
    \/ LargeBatchEnd
    \/ WritePacketData
    \/ LoopEnd

SpecWriter == InitWriter /\ [][NextWriter]_vars

----------------------------------------------------------------------------
(* Re-reading a container: what a reader of the classic capture format      *)
(* gets from the file, reading the global header and then record by record. *)

Unknown == <<-3>>

RECURSIVE Seek(_, _, _)
\* the index, from j on, of the write that holds offset pos
Seek(file, pos, j) ==
    IF j > Len(file) THEN j
    ELSE IF pos < file[j].at + file[j].len THEN j
    ELSE Seek(file, pos, j + 1)

\* the n bytes at offset pos of write j, when they lie in its kept head or tail
ReadAt(file, pos, n, j) ==
    IF n = 0 THEN <<>>
    ELSE IF j > Len(file) \/ pos < file[j].at THEN Unknown
    ELSE IF pos + n <= file[j].at + Len(file[j].head)
    THEN SubSeq(file[j].head, pos - file[j].at + 1, pos - file[j].at + n)
    ELSE IF /\ file[j].at + file[j].len - Len(file[j].tail) <= pos
            /\ pos + n <= file[j].at + file[j].len
    THEN LET from == pos - (file[j].at + file[j].len - Len(file[j].tail))
         IN  SubSeq(file[j].tail, from + 1, from + n)
    ELSE Unknown

RECURSIVE ReadFrom(_, _, _)
\* the records from offset pos on, the cursor being at write j; a record whose
\* header cannot be read, or whose payload runs past the end of the file,
\* ends the reading
ReadFrom(file, pos, j) ==
    IF pos >= FileSize(file) THEN <<>>
    ELSE LET jh == Seek(file, pos, j)
             h == ReadAt(file, pos, 16, jh)
         IN  IF h = Unknown
             THEN << [ok |-> FALSE, ts_sec |-> 0, ts_usec |-> 0, caplen |-> 0,
                      origlen |-> 0, head |-> <<>>, tail |-> <<>>] >>
             ELSE LET caplen == Unpack_L_le(h, 9)
                      complete == pos + 16 + caplen <= FileSize(file)
                      jd == Seek(file, pos + 16, jh)
                      rec == [ok |-> complete,
                              ts_sec |-> Unpack_L_le(h, 1),
                              ts_usec |-> Unpack_L_le(h, 5),
                              caplen |-> caplen,
                              origlen |-> Unpack_L_le(h, 13),
                              head |-> IF complete
                                       THEN ReadAt(file, pos + 16, Min(caplen, HeadLen), jd)
                                       ELSE <<>>,
                              tail |-> IF complete
                                       THEN ReadAt(file, pos + 16 + caplen - Min(caplen, TailLen),
                                                   Min(caplen, TailLen), jd)
                                       ELSE <<>>]
                  IN  IF complete THEN <<rec>> \o ReadFrom(file, pos + 16 + caplen, jd)
                      ELSE <<rec>>

ReadRecords(file) == ReadFrom(file, 24, 1)

RecLeq(a, b) == a.ts_sec < b.ts_sec \/ (a.ts_sec = b.ts_sec /\ a.ts_usec <= b.ts_usec)

----------------------------------------------------------------------------
(* Properties of the writers (SpecWriter)                                  *)

\* C7: the finished container re-reads as exactly the N packets written, in
\* the order written, each record with captured length = original length =
\* the length of its packet, microseconds within 0..999999, and timestamps
\* that do not decrease where the timestamps fed did not.
C7_ContainerRoundTrip ==
    pc = "done" =>
        LET recs == ReadRecords(f)
        IN  /\ ReadAt(f, 0, 24, 1) = CreatePcapGlobalHeader
            /\ Len(recs) = num_packets
            /\ Len(fed) = num_packets
            /\ \A k \in 1..Len(recs) :
                  /\ recs[k].ok
                  /\ recs[k].caplen = fed[k].length
                  /\ recs[k].origlen = fed[k].length
                  /\ recs[k].head = fed[k].head
                  /\ recs[k].tail = fed[k].tail
                  /\ recs[k].ts_sec = TsSec(fed[k].timestamp)
                  /\ recs[k].ts_usec \in 0..999999
            /\ \A k \in 1..(Len(recs) - 1) :
                  TsLeq(fed[k].timestamp, fed[k + 1].timestamp)
                      => RecLeq(recs[k], recs[k + 1])

\* five packets re-read, the clock having passed the end of a second on the way
C7_Witness ==
    /\ pc = "done"
    /\ writer = "create_test_pcap_simple"
    /\ Len(ReadRecords(f)) = 5
    /\ ReadRecords(f)[2].ts_usec = 999999
    /\ ReadRecords(f)[3].ts_sec = ReadRecords(f)[2].ts_sec + 1

\* the captured-length field of a record header
CapLen(hdr) == Unpack_L_le(hdr, 9)

\* C8: the global header is the first write and is written once; after it the
\* writes alternate, a 16-byte record header and then the packet it
\* describes, and nothing else; a finished file holds 1 + 2N writes for any N.
C8_HeaderOnceThenRecords ==
    /\ pc = "open" => f = <<>>
    /\ pc # "open" =>
          /\ Len(f) >= 1
          /\ f[1].at = 0 /\ f[1].len = 24 /\ f[1].head = CreatePcapGlobalHeader
    /\ \A j \in 2..Len(f) :
          /\ f[j].head # CreatePcapGlobalHeader
          /\ f[j].at = f[j - 1].at + f[j - 1].len
          /\ j % 2 = 0 =>
                /\ f[j].len = 16
                /\ CapLen(f[j].head) = fed[j \div 2].length
                /\ j < Len(f) =>
                      /\ f[j + 1].len = CapLen(f[j].head)
                      /\ f[j + 1].head = fed[j \div 2].head
                      /\ f[j + 1].tail = fed[j \div 2].tail
                /\ j = Len(f) =>
                      /\ pc = "data"
                      /\ f[j].head = packet_header
                      /\ Len(packet_data) = CapLen(f[j].head)
    /\ pc = "data" => Len(f) % 2 = 0
    /\ pc = "done" => Len(f) = 1 + 2 * num_packets

\* a finished file of the batched writer whose packet count is not a multiple
\* of the batch size
C8_Witness ==
    /\ pc = "done"
    /\ writer = "create_large_pcap"
    /\ num_packets > 0
    /\ num_packets % BatchSize # 0
    /\ Len(f) = 1 + 2 * num_packets

\* the snapshot length the global header declares
SnapLen(global_header) == Unpack_L_le(global_header, 17)

\* C13: no record a writer emits has a captured length above the snapshot
\* length of the global header, and the payload size 8 + 4 * count of its
\* packet fits the 16-bit field of the transport header, which carries it.
C13_LengthsWithinLimits ==
    \A k \in 1..Len(fed) :
        /\ fed[k].length <= SnapLen(f[1].head)
        /\ SnapLen(f[1].head) = 65535
        /\ fed[k].length - (14 + 7) = 8 + 4 * SamplesPerPacket
        /\ 8 + 4 * SamplesPerPacket <= 65535
        /\ PayloadSizeField(fed[k].head) = 8 + 4 * SamplesPerPacket
        /\ 2 * k <= Len(f) => CapLen(f[2 * k].head) = fed[k].length

\* a record of the batched writer written out whole
C13_Witness ==
    /\ writer = "create_large_pcap"
    /\ Len(fed) >= 1
    /\ Len(f) >= 3
    /\ fed[1].length = 13133
    /\ CapLen(f[2].head) = 13133
    /\ PayloadSizeField(fed[1].head) = 13112
    /\ SnapLen(f[1].head) = 65535

----------------------------------------------------------------------------
(* SpecIq: generate_iq_samples_fast invoked again and again with the same   *)
(* arguments, other uses of the random module falling in between.           *)

MaxIqSamples == 2
MaxIqSeed == 2
MaxPriorDraws == 3

FastIqCalls ==
    {[fn |-> "generate_iq_samples_fast", num_samples |-> n, pattern_type |-> p, seed |-> sd] :
        n \in 0..MaxIqSamples, p \in 0..3, sd \in 0..MaxIqSeed}

InitIq ==
    /\ rng \in InitialRng
    /\ call \in FastIqCalls
    /\ returned = FALSE /\ ret = <<>>
    /\ NoWriter
    /\ NoIq

\* generate_iq_samples_fast(num_samples, pattern_type, seed), start to return
CallGenerateIqSamplesFast ==
    /\ call.fn = "generate_iq_samples_fast"
    /\ \E r \in {GenerateIqSamplesFast(rng, call.num_samples, call.pattern_type, call.seed)} :
          /\ ret' = r.out
          /\ rng' = r.rng
          /\ outputs' = (IF outputs = <<>> THEN <<[prior |-> rng, out |-> r.out]>>
                         ELSE <<outputs[1], [prior |-> rng, out |-> r.out]>>)
    /\ returned' = TRUE
    /\ UNCHANGED <<call, writerVars, threads, draws>>

\* random.randint or random.random called by any other code of the process
PriorRandomDraw ==
    /\ call.fn = "generate_iq_samples_fast"
    /\ rng.ctr < MaxPriorDraws
    /\ rng' = Advance(rng, 1)
    /\ UNCHANGED <<callVars, writerVars, iqVars>>

\* random.seed called by any other code of the process
PriorRandomSeed ==
    /\ call.fn = "generate_iq_samples_fast"
    /\ \E a \in 0..MaxIqSeed : rng' = RandomSeed(rng, a)
    /\ UNCHANGED <<callVars, writerVars, iqVars>>

NextIq ==
    \/ CallGenerateIqSamplesFast
    \/ PriorRandomDraw
    \/ PriorRandomSeed

SpecIq == InitIq /\ [][NextIq]_vars

\* C9: every invocation with the same (sample count, pattern, seed) returns
\* the same bytes, whatever the random module was used for before it.
C9_DeterministicPerArguments ==
    \A a, b \in 1..Len(outputs) : outputs[a].out = outputs[b].out

\* two invocations of the noise pattern entered in different generator
\* states, the second after draws under a key other than the seed argument
C9_Witness ==
    /\ Len(outputs) = 2
    /\ call.pattern_type = 1
    /\ call.num_samples > 0
    /\ outputs[1].prior # outputs[2].prior
    /\ outputs[2].prior.key # call.seed
    /\ outputs[2].prior.ctr > 0
    /\ ret = outputs[2].out

----------------------------------------------------------------------------
(* SpecThreads: threads of one process each running                        *)
(* generate_iq_samples_fast.  The interpreter switches threads between      *)
(* calls into the random module; each such call runs without interruption.  *)

Threads == {1, 2}
ThreadSamples == {1, 2}
ThreadSeeds == {1, 2}

ThreadStart ==
    {[num_samples |-> n, pattern_type |-> p, seed |-> sd, at |-> "seed",
      drawn |-> <<>>, out |-> <<>>] :
        n \in ThreadSamples, p \in 0..3, sd \in ThreadSeeds}

InitThreads ==
    /\ rng \in InitialRng
    /\ NoCall
    /\ NoWriter
    /\ outputs = <<>> /\ draws = <<>>
    /\ threads \in [Threads -> ThreadStart]

\* random.seed(seed)
ThreadSeed(t) ==
    /\ threads[t].at = "seed"
    /\ rng' = RandomSeed(rng, threads[t].seed)
    /\ threads' = [threads EXCEPT ![t].at = "draw"]
    /\ UNCHANGED <<callVars, writerVars, outputs, draws>>

\* the thread's next random.randint or random.random
ThreadDraw(t) ==
    /\ threads[t].at = "draw"
    /\ Len(threads[t].drawn) < FastDrawCount(threads[t].num_samples, threads[t].pattern_type)
    /\ LET j == Len(threads[t].drawn) + 1
           first == IF j = 1 THEN 0 ELSE threads[t].drawn[1]
           v == FastDraw(rng, threads[t].pattern_type, j, first)
       IN  threads' = [threads EXCEPT ![t].drawn = Append(@, v)]
    /\ rng' = Advance(rng, 1)
    /\ UNCHANGED <<callVars, writerVars, outputs, draws>>

\* return b''.join(samples)
ThreadReturn(t) ==
    /\ threads[t].at = "draw"
    /\ Len(threads[t].drawn) = FastDrawCount(threads[t].num_samples, threads[t].pattern_type)
    /\ threads' = [threads EXCEPT
                      ![t].at = "done",
                      ![t].out = FastOutput(threads[t].num_samples, threads[t].pattern_type,
                                            threads[t].drawn)]
    /\ UNCHANGED <<rng, callVars, writerVars, outputs, draws>>

NextThreads ==
    \E t \in Threads :
        \/ ThreadSeed(t)
        \/ ThreadDraw(t)
        \/ ThreadReturn(t)

SpecThreads == InitThreads /\ [][NextThreads]_vars

\* C10: each of the concurrent invocations returns exactly the bytes it
\* returns when run alone.
C10_ConcurrentAsAlone ==
    \A t \in DOMAIN threads :
        threads[t].at = "done" =>
            threads[t].out = GenerateIqSamplesFast(rng, threads[t].num_samples,
                                                   threads[t].pattern_type,
                                                   threads[t].seed).out

----------------------------------------------------------------------------
(* SpecSamples: one call of one IQ generator, every value the random module *)
(* hands it being any value of the range asked for: the least, the middle   *)
(* and the greatest are taken.                                              *)

MaxGenSamples == 3

GeneratorFns ==
    {"generate_iq_samples", "generate_iq_samples_with_pattern", "generate_iq_samples_fast"}

GeneratorCalls ==
    {[fn |-> "generate_iq_samples", num_samples |-> n, pattern |-> "none"] :
        n \in 0..MaxGenSamples}
    \cup {[fn |-> "generate_iq_samples_with_pattern", num_samples |-> n, pattern |-> p] :
            n \in 0..MaxGenSamples, p \in Patterns}
    \cup {[fn |-> "generate_iq_samples_fast", num_samples |-> n, pattern_type |-> p] :
            n \in 0..MaxGenSamples, p \in 0..3}

\* the number of values the call draws
NeededDraws(c) ==
    IF c.fn = "generate_iq_samples" THEN 2 * c.num_samples
    ELSE IF c.fn = "generate_iq_samples_with_pattern"
    THEN (IF c.pattern = "noise" THEN 2 * c.num_samples ELSE 0)
    ELSE FastDrawCount(c.num_samples, c.pattern_type)

\* the range of the call's draw number j, d being the values drawn before it
DrawRange(c, j, d) ==
    IF c.fn = "generate_iq_samples" THEN IqNoiseRange
    ELSE IF c.fn = "generate_iq_samples_with_pattern" THEN PatternNoiseRange
    ELSE FastDrawRange(c.pattern_type, j, IF j = 1 THEN 0 ELSE d[1])

DrawChoices(r) == {r[1], (r[1] + r[2]) \div 2, r[2]}

\* the (I, Q) pairs the call hands to struct.pack
SamplePairs(c, d) ==
    IF c.fn = "generate_iq_samples" THEN IqSamples(c.num_samples, d)
    ELSE IF c.fn = "generate_iq_samples_with_pattern"
    THEN PatternSamples(c.num_samples, c.pattern, d)
    ELSE FastSamples(c.num_samples, c.pattern_type, d)

InitSamples ==
    /\ rng \in InitialRng
    /\ call \in GeneratorCalls
    /\ returned = FALSE /\ ret = <<>>
    /\ NoWriter
    /\ NoIq

\* the call's next random.randint or random.random
GeneratorDraw ==
    /\ call.fn \in GeneratorFns
    /\ ~returned
    /\ Len(draws) < NeededDraws(call)
    /\ \E v \in DrawChoices(DrawRange(call, Len(draws) + 1, draws)) :
          draws' = Append(draws, v)
    /\ rng' = Advance(rng, 1)
    /\ UNCHANGED <<callVars, writerVars, outputs, threads>>

\* samples.append(struct.pack('>hh', i_sample, q_sample)) for every sample,
\* and return b''.join(samples)
GeneratorReturn ==
    /\ call.fn \in GeneratorFns
    /\ ~returned
    /\ Len(draws) = NeededDraws(call)
    /\ ret' = JoinSamples(SamplePairs(call, draws))
    /\ returned' = TRUE
    /\ UNCHANGED <<rng, call, writerVars, iqVars>>

NextSamples ==
    \/ GeneratorDraw
    \/ GeneratorReturn

SpecSamples == InitSamples /\ [][NextSamples]_vars

\* C11: every I and every Q value a generator serialises lies in
\* -32768..32767, whatever the pattern and the values drawn, so that the
\* serialisation as signed 16 bit does not fail and yields 4 bytes a sample.
C11_SamplesFitInt16 ==
    (returned /\ call.fn \in GeneratorFns) =>
        /\ ~IsErr(ret)
        /\ Len(ret) = 4 * call.num_samples
        /\ \A k \in 1..call.num_samples :
              /\ InInt16(SamplePairs(call, draws)[k][1])
              /\ InInt16(SamplePairs(call, draws)[k][2])

\* the unclamped noise of the seeded generator at the greatest amplitude, a
\* sample at each end of its range
C11_Witness ==
    /\ returned
    /\ call.fn = "generate_iq_samples_fast"
    /\ call.pattern_type = 1
    /\ call.num_samples > 0
    /\ draws[1] = 300
    /\ SamplePairs(call, draws)[1] = <<-1300, 1300>>
    /\ ~IsErr(ret)

====
